---- MODULE Spec2Model ----
(***************************************************************************)
(* pybart: the command-line entry point (pybart_main.py), the              *)
(* virtualization-realm allocator (Bart.allocate_virtualization_realm),    *)
(* the wait loop of deallocate / unregister_virtualization_realm and the   *)
(* asset validator / packager (validate_asset_structure, make_asset_zip)   *)
(* of bart.py.                                                             *)
(*                                                                         *)
(* Python values whose type matters are tagged records: the code is        *)
(* Python 2, where an int compares less than any str.                      *)
(***************************************************************************)
EXTENDS Integers, Sequences, FiniteSets, TLC

VARIABLES
    pc,            \* position of the command-line run
    entry,         \* "main" (CLI) or "pybart_config" (called as a function)
    mode,          \* the mode argument as given
    retries,       \* my_bart.retries
    queries,       \* my_bart.queries
    retry_count,   \* bart.py:836
    count,         \* loop variable of the poll loop, bart.py:857
    vr_id,         \* bart.py:831
    allocated,     \* last allocation response, bart.py:839
    project_id,    \* bart.py:828
    nRequests,     \* allocation requests issued so far
    nPolls,        \* polls issued so far
    pollsSince,    \* polls issued since the latest allocation request
    found,         \* the id a poll returned, None before
    postCalls,     \* remote calls issued after the allocation loop
    err,           \* the exception in flight or last raised
    retval,        \* return value of pybart_config
    exitStatus,    \* exit status of the process (main)
    assetDir,      \* the asset directory tree
    manifest,      \* lines of asset.properties
    destination,   \* the destination directory of make_asset_zip
    zips,          \* zip files in the destination directory
    result,        \* outcome of the last asset operation
    apc,           \* position of the asset run
    drs,           \* active runs the latest listing reported, bart.py:946, 958
    not_done,      \* flag of the wait loop, bart.py:956
    purgeCalls     \* remote calls of deallocate / unregister that change the realm

cliVars == <<pc, entry, mode, retries, queries, retry_count, count, vr_id,
             allocated, project_id, nRequests, nPolls, pollsSince, found,
             postCalls, err, retval, exitStatus>>
assetVars == <<assetDir, manifest, destination, zips, result, apc>>
purgeVars == <<drs, not_done, purgeCalls>>
vars == <<cliVars, assetVars, purgeVars>>

(***************************************************************************)
(* Python values                                                           *)
(***************************************************************************)
None == [type |-> "NoneType", val |-> 0]
PyInt(n) == [type |-> "int", val |-> n]
\* a decimal string such as '3'; val is the number it denotes
PyStr(n) == [type |-> "str", val |-> n]
PyList(s) == [type |-> "list", val |-> s]

\* Python 2 ordering of a < b for ints and strs: numbers sort before strings
PyLess(a, b) ==
    IF a.type = "int" /\ b.type = "int" THEN a.val < b.val
    ELSE IF a.type = "str" /\ b.type = "str" THEN a.val < b.val
    ELSE a.type = "int" /\ b.type = "str"

\* int(x) of an int or a decimal string
PyIntOf(x) == x.val

\* str.lower() on the allocation responses
Lower(s) ==
    CASE s = "True" -> "true"
      [] s = "TRUE" -> "true"
      [] s = "False" -> "false"
      [] OTHER -> s

\* mode.lower().strip()
NormMode(m) ==
    CASE m = "Allocate " -> "allocate"
      [] m = "REGISTER" -> "register"
      [] OTHER -> m

(***************************************************************************)
(* Bounds and program constants                                            *)
(***************************************************************************)
MaxRetries == 2
MaxQueries == 2
MaxRequests == 7
DefaultRetries == 5
DefaultQueries == 45

Modes == {"none", "register", "allocate", "Allocate ", "deallocate",
          "unregister", "REGISTER", "status"}
Responses == {"true", "True", "false", "False", ""}
VrIds == {11, 12}
ProjectName == "proj"
\* what list_all_projects may return
ProjectLists ==
    { <<>>,
      << [name |-> "proj", id |-> 7] >>,
      << [name |-> "other", id |-> 8], [name |-> "proj", id |-> 7] >>,
      << [name |-> "proj", id |-> 7], [name |-> "proj", id |-> 9] >> }
ClientErrors == {"HttpError", "Cons3rtClientError"}

NoErr == [kind |-> "none", msg |-> "none"]
Error(k, m) == [kind |-> k, msg |-> m]

\* exception classes the two except clauses of pybart_main.py name
Caught == {"BartError", "HttpError"}

(***************************************************************************)
(* Initial state                                                           *)
(***************************************************************************)
InitCli ==
    /\ pc = "start"
    /\ entry = "none"
    /\ mode = "none"
    /\ retries = PyStr(0)      \* Bart.__init__ leaves '' here
    /\ queries = PyStr(0)
    /\ retry_count = 0
    /\ count = 0
    /\ vr_id = None
    /\ allocated = "unset"
    /\ project_id = None
    /\ nRequests = 0
    /\ nPolls = 0
    /\ pollsSince = 0
    /\ found = None
    /\ postCalls = <<>>
    /\ err = NoErr
    /\ retval = -1
    /\ exitStatus = -1

(***************************************************************************)
(* pybart_main.py                                                          *)
(***************************************************************************)
\* what argparse hands over: an option given on the command line is a str,
\* an option left out is the int default
ArgRetries == {PyInt(DefaultRetries)} \cup {PyStr(n) : n \in 0..MaxRetries}
ArgQueries == {PyInt(DefaultQueries)} \cup {PyStr(n) : n \in 0..MaxQueries}

\* main(): parse the arguments and call pybart_config
Main ==
    /\ pc = "start"
    /\ entry' = "main"
    /\ \E m \in Modes, r \in ArgRetries, q \in ArgQueries :
          /\ mode' = m
          /\ retries' = r
          /\ queries' = q
    /\ pc' = "config"
    /\ UNCHANGED <<retry_count, count, vr_id, allocated, project_id, nRequests,
                   nPolls, pollsSince, found, postCalls, err, retval, exitStatus>>
    /\ UNCHANGED assetVars
    /\ UNCHANGED purgeVars

\* pybart_config called as a function, with numbers
CallPybartConfig ==
    /\ pc = "start"
    /\ entry' = "pybart_config"
    /\ \E m \in Modes, r \in 0..MaxRetries, q \in 0..MaxQueries :
          /\ mode' = m
          /\ retries' = PyInt(r)
          /\ queries' = PyInt(q)
    /\ pc' = "config"
    /\ UNCHANGED <<retry_count, count, vr_id, allocated, project_id, nRequests,
                   nPolls, pollsSince, found, postCalls, err, retval, exitStatus>>
    /\ UNCHANGED assetVars
    /\ UNCHANGED purgeVars

\* raise e inside the operation pybart_config dispatched to
Raise(e) ==
    /\ err' = e
    /\ pc' = "op_raised"

\* pybart_config up to the dispatch on the mode
PybartConfig ==
    /\ pc = "config"
    /\ \/ /\ err' = Error("PyBartError", "parse_user")
          /\ pc' = "config_raised"
          /\ UNCHANGED retval
       \/ /\ NormMode(mode) = "none"
          /\ retval' = 0
          /\ pc' = "config_returned"
          /\ UNCHANGED err
       \/ /\ NormMode(mode) = "register"
          /\ pc' = "operation"
          /\ UNCHANGED <<err, retval>>
       \/ /\ NormMode(mode) \in {"deallocate", "unregister"}
          /\ pc' = "purge_pre"
          /\ UNCHANGED <<err, retval>>
       \/ /\ NormMode(mode) = "allocate"
          /\ pc' = "alloc_pre"
          /\ UNCHANGED <<err, retval>>
       \/ /\ NormMode(mode) \notin {"none", "register", "deallocate",
                                     "unregister", "allocate"}
          /\ retval' = 1
          /\ pc' = "config_returned"
          /\ UNCHANGED err
    /\ UNCHANGED <<entry, mode, retries, queries, retry_count, count, vr_id,
                   allocated, project_id, nRequests, nPolls, pollsSince, found,
                   postCalls, exitStatus>>
    /\ UNCHANGED assetVars
    /\ UNCHANGED purgeVars

\* the exceptions each of the other operations lets out
OperationErrors(m) ==
    IF m = "register"
    THEN {"BartError"} \cup ClientErrors
    ELSE {"IOError"} \cup ClientErrors

\* register_virtualization_realm, by its outcome
Operation ==
    /\ pc = "operation"
    /\ \/ /\ pc' = "op_done"
          /\ UNCHANGED err
       \/ \E k \in OperationErrors(NormMode(mode)) : Raise(Error(k, "operation"))
    /\ UNCHANGED <<entry, mode, retries, queries, retry_count, count, vr_id,
                   allocated, project_id, nRequests, nPolls, pollsSince, found,
                   postCalls, retval, exitStatus>>
    /\ UNCHANGED assetVars
    /\ UNCHANGED purgeVars

\* pybart_config after the dispatch: except (BartError, HttpError) returns 1,
\* any other exception leaves the function, a normal end returns 0
PybartConfigEnd ==
    /\ pc \in {"op_done", "op_raised"}
    /\ IF pc = "op_done"
       THEN retval' = 0 /\ pc' = "config_returned"
       ELSE IF err.kind \in Caught
            THEN retval' = 1 /\ pc' = "config_returned"
            ELSE retval' = retval /\ pc' = "config_raised"
    /\ UNCHANGED <<entry, mode, retries, queries, retry_count, count, vr_id,
                   allocated, project_id, nRequests, nPolls, pollsSince, found,
                   postCalls, err, exitStatus>>
    /\ UNCHANGED assetVars
    /\ UNCHANGED purgeVars

\* the status main() ends the process with: the value of pybart_config is
\* dropped and main returns 0; an exception pybart_config let out is not one
\* main catches either, and the interpreter ends with status 1
MainStatus(p, e, rv) ==
    IF p = "config_returned" THEN 0 ELSE 1

MainEnd ==
    /\ entry = "main"
    /\ pc \in {"config_returned", "config_raised"}
    /\ exitStatus' = MainStatus(pc, err, retval)
    /\ pc' = "exited"
    /\ UNCHANGED <<entry, mode, retries, queries, retry_count, count, vr_id,
                   allocated, project_id, nRequests, nPolls, pollsSince, found,
                   postCalls, err, retval>>
    /\ UNCHANGED assetVars
    /\ UNCHANGED purgeVars

(***************************************************************************)
(* Bart.allocate_virtualization_realm                                      *)
(***************************************************************************)
\* Bart.get_project_id: the ids of the projects with that name, in list order
RECURSIVE GetProjectId(_, _)
GetProjectId(projects, project_name) ==
    IF projects = <<>> THEN <<>>
    ELSE (IF Head(projects).name = project_name
          THEN <<Head(projects).id>> ELSE <<>>)
         \o GetProjectId(Tail(projects), project_name)

\* the messages of the two BartErrors of the allocation loop
MsgReturned == "Attempt to allocate virtualization realm returned"
MsgFailedAfter == "Virtualization realm failed to be allocated after attempts"

\* the exhaustion raised with the message of the refusal
ExhaustedAsRefused == Error("BartError", MsgReturned)

\* what the loop raises for a response that does not affirm success
RefusedError == Error("BartError", MsgReturned)
\* what is raised when the loop ends with no realm id
ExhaustedError == Error("BartError", MsgFailedAfter)

\* lines 797-834: deployment properties, cloud registration, project lookup
AllocPreamble ==
    /\ pc = "alloc_pre"
    /\ \/ /\ Raise(Error("BartError", "Property not found"))
          /\ UNCHANGED project_id
       \/ /\ \E k \in ClientErrors : Raise(Error(k, "register_cloud"))
          /\ UNCHANGED project_id
       \/ \E projects \in ProjectLists :
             LET ids == GetProjectId(projects, ProjectName) IN
             IF Len(ids) < 1
             THEN /\ Raise(Error("BartError", "Project not found"))
                  /\ UNCHANGED project_id
             ELSE /\ project_id' = PyList(ids)
                  /\ pc' = "alloc_loop"
                  /\ UNCHANGED err
    /\ vr_id' = None
    /\ retry_count' = 0
    /\ UNCHANGED <<entry, mode, retries, queries, count, allocated, nRequests,
                   nPolls, pollsSince, found, postCalls, retval, exitStatus>>
    /\ UNCHANGED assetVars
    /\ UNCHANGED purgeVars

\* the loop condition off by one
WhileCondInclusive ==
    IF retries.type = "int" THEN retry_count <= retries.val ELSE TRUE

\* while retry_count < self.retries (line 837)
WhileCond == PyLess(PyInt(retry_count), retries)

\* the test of the response turned into a test for refusal
AffirmsUnlessFalse(resp) == Lower(resp) # "false"

\* whether the response affirms success (line 849)
Affirms(resp) == Lower(resp) = "true"

\* lines 837-855, 873-876: one allocation request and the test of its response
AllocRequest ==
    /\ pc = "alloc_loop"
    /\ WhileCond
    /\ nRequests < MaxRequests
    /\ nRequests' = nRequests + 1
    /\ pollsSince' = 0
    /\ \/ /\ \E k \in ClientErrors : Raise(Error(k, "allocate_virtualization_realm"))
          /\ UNCHANGED <<allocated, count>>
       \/ \E resp \in Responses :
             /\ allocated' = resp
             /\ IF Affirms(resp)
                THEN /\ count' = 0
                     /\ pc' = "alloc_poll"
                     /\ UNCHANGED err
                ELSE /\ Raise(RefusedError)
                     /\ UNCHANGED count
    /\ UNCHANGED <<entry, mode, retries, queries, retry_count, vr_id, project_id,
                   nPolls, found, postCalls, retval, exitStatus>>
    /\ UNCHANGED assetVars
    /\ UNCHANGED purgeVars

\* the poll loop running once more than max_count times
PollCondInclusive == count <= PyIntOf(queries)

\* for count in range(0, max_count), max_count = int(self.queries) (851, 857)
PollCond == count < PyIntOf(queries)

\* lines 857-864 and the two breaks (864, 871): one poll
AllocPoll ==
    /\ pc = "alloc_poll"
    /\ PollCond
    /\ nPolls' = nPolls + 1
    /\ pollsSince' = pollsSince + 1
    /\ \/ /\ \E k \in ClientErrors : Raise(Error(k, "get_virtualization_realm_id"))
          /\ UNCHANGED <<vr_id, found, count>>
       \/ \E r \in {None} \cup {PyInt(i) : i \in VrIds} :
             /\ vr_id' = r
             /\ IF r.type = "NoneType"
                THEN /\ count' = count + 1
                     /\ UNCHANGED <<pc, found>>
                ELSE /\ found' = r
                     /\ pc' = "alloc_grant"
                     /\ UNCHANGED count
             /\ UNCHANGED err
    /\ UNCHANGED <<entry, mode, retries, queries, retry_count, allocated,
                   project_id, nRequests, postCalls, retval, exitStatus>>
    /\ UNCHANGED assetVars
    /\ UNCHANGED purgeVars

\* lines 866-869: the poll loop ran out with no realm id
AllocPollsExhausted ==
    /\ pc = "alloc_poll"
    /\ ~PollCond
    /\ IF vr_id.type = "NoneType"
       THEN retry_count' = retry_count + 1 /\ pc' = "alloc_loop"
       ELSE retry_count' = retry_count /\ pc' = "alloc_grant"
    /\ UNCHANGED <<entry, mode, retries, queries, count, vr_id, allocated,
                   project_id, nRequests, nPolls, pollsSince, found, postCalls,
                   err, retval, exitStatus>>
    /\ UNCHANGED assetVars
    /\ UNCHANGED purgeVars

\* lines 837, 878-883: the while loop ends
AllocLoopExit ==
    /\ pc = "alloc_loop"
    /\ ~WhileCond
    /\ IF vr_id.type = "NoneType"
       THEN Raise(ExhaustedError)
       ELSE pc' = "alloc_grant" /\ UNCHANGED err
    /\ UNCHANGED <<entry, mode, retries, queries, retry_count, count, vr_id,
                   allocated, project_id, nRequests, nPolls, pollsSince, found,
                   postCalls, retval, exitStatus>>
    /\ UNCHANGED assetVars
    /\ UNCHANGED purgeVars

\* a remote call issued after the loop, as the client sees it
Call(op, vr, project, ok) ==
    [op |-> op, vr_id |-> vr, project_id |-> project, ok |-> ok]

\* a failed admin grant swallowed: the run goes on to the project attach
GrantFailureSwallowed(k) ==
    /\ pc' = "alloc_attach"
    /\ UNCHANGED err

\* where the run goes after a failed admin grant
AfterGrantFailure(k) == Raise(Error(k, "add_virtualization_realm_admin"))

\* line 886: add_virtualization_realm_admin(vr_id, username)
AllocGrant ==
    /\ pc = "alloc_grant"
    /\ \/ /\ postCalls' = Append(postCalls,
                 Call("add_virtualization_realm_admin", vr_id, None, TRUE))
          /\ pc' = "alloc_attach"
          /\ UNCHANGED err
       \/ /\ postCalls' = Append(postCalls,
                 Call("add_virtualization_realm_admin", vr_id, None, FALSE))
          /\ \E k \in ClientErrors : AfterGrantFailure(k)
    /\ UNCHANGED <<entry, mode, retries, queries, retry_count, count, vr_id,
                   allocated, project_id, nRequests, nPolls, pollsSince, found,
                   retval, exitStatus>>
    /\ UNCHANGED assetVars
    /\ UNCHANGED purgeVars

\* line 889: add_project_to_virtualization_realm(vr_id, project_id)
AllocAttach ==
    /\ pc = "alloc_attach"
    /\ \/ /\ postCalls' = Append(postCalls,
                 Call("add_project_to_virtualization_realm", vr_id, project_id, TRUE))
          /\ pc' = "op_done"
          /\ UNCHANGED err
       \/ /\ postCalls' = Append(postCalls,
                 Call("add_project_to_virtualization_realm", vr_id, project_id, FALSE))
          /\ \E k \in ClientErrors :
                Raise(Error(k, "add_project_to_virtualization_realm"))
    /\ UNCHANGED <<entry, mode, retries, queries, retry_count, count, vr_id,
                   allocated, project_id, nRequests, nPolls, pollsSince, found,
                   retval, exitStatus>>
    /\ UNCHANGED assetVars
    /\ UNCHANGED purgeVars

(***************************************************************************)
(* Bart.deallocate_virtualization_realm and                                *)
(* Bart.unregister_virtualization_realm: the two differ in the last call   *)
(***************************************************************************)
MaxRuns == 2

\* the variables of the allocator and of pybart_config, left alone here
purgeFrame == <<entry, mode, retries, queries, retry_count, count, vr_id,
                allocated, project_id, nRequests, nPolls, pollsSince, found,
                postCalls, retval, exitStatus>>

InitPurge ==
    /\ drs = -1
    /\ not_done = FALSE
    /\ purgeCalls = <<>>

\* lines 903-942 (998-1037): the cloud file, the cloud id and the realm id
\* (either missing: nothing to do), the deactivation, the projects removed
PurgePreamble ==
    /\ pc = "purge_pre"
    /\ \/ \E k \in OperationErrors(NormMode(mode)) : Raise(Error(k, "operation"))
       \/ pc' = "op_done" /\ UNCHANGED err
       \/ pc' = "purge_list" /\ UNCHANGED err
    /\ UNCHANGED purgeVars
    /\ UNCHANGED purgeFrame
    /\ UNCHANGED assetVars

\* lines 946-956 (1041-1051): the active runs are listed and each is released
PurgeListActive ==
    /\ pc = "purge_list"
    /\ \/ /\ \E k \in ClientErrors : Raise(Error(k, "operation"))
          /\ UNCHANGED purgeVars
       \/ \E n \in 0..MaxRuns :
             /\ drs' = n
             /\ IF n = 0
                THEN /\ pc' = "purge_delete"
                     /\ UNCHANGED <<not_done, purgeCalls>>
                ELSE /\ purgeCalls' = Append(purgeCalls, "release_deployment_run")
                     /\ not_done' = TRUE
                     /\ pc' = "purge_wait"
             /\ UNCHANGED err
    /\ UNCHANGED purgeFrame
    /\ UNCHANGED assetVars

\* lines 960-966 (1055-1061): what the loop makes of the listing: an empty
\* listing sets not_done to True, a listing with runs in it to False
NotDoneAfter(n) == n = 0

\* lines 957-966 (1052-1061): one pass of the wait loop; the runs reported
\* are among those reported before
PurgeWait ==
    /\ pc = "purge_wait"
    /\ not_done
    /\ \/ /\ \E k \in ClientErrors : Raise(Error(k, "operation"))
          /\ UNCHANGED purgeVars
       \/ \E n \in 0..drs :
             /\ drs' = n
             /\ not_done' = NotDoneAfter(n)
             /\ pc' = IF NotDoneAfter(n) THEN "purge_wait" ELSE "purge_delete"
             /\ UNCHANGED <<err, purgeCalls>>
    /\ UNCHANGED purgeFrame
    /\ UNCHANGED assetVars

\* the calls that end the function: the deployment runs found are deleted,
\* and deallocate_virtualization_realm goes on to deallocate the realm
LastCalls(m, runsFound) ==
    (IF runsFound THEN <<"delete_deployment_run">> ELSE <<>>)
    \o (IF m = "deallocate" THEN <<"deallocate_virtualization_realm">> ELSE <<>>)

\* lines 972-985 (1067-1076): all runs are listed and deleted, the realm is
\* deallocated
PurgeDelete ==
    /\ pc = "purge_delete"
    /\ \/ /\ \E k \in ClientErrors : Raise(Error(k, "operation"))
          /\ UNCHANGED purgeCalls
       \/ \E runsFound \in BOOLEAN :
             /\ drs > 0 => runsFound
             /\ purgeCalls' = purgeCalls \o LastCalls(NormMode(mode), runsFound)
             /\ pc' = "op_done"
             /\ UNCHANGED err
    /\ UNCHANGED <<drs, not_done>>
    /\ UNCHANGED purgeFrame
    /\ UNCHANGED assetVars

(***************************************************************************)
(* The command-line run                                                    *)
(***************************************************************************)
InitAssetIdle ==
    /\ assetDir = {}
    /\ manifest = <<>>
    /\ destination = [arg |-> "None", state |-> "absent"]
    /\ zips = {}
    /\ result = [op |-> "none", status |-> "none", msg |-> "none",
                 name |-> <<>>, examined |-> 0, zip_file_path |-> <<>>]
    /\ apc = "idle"

Init == InitCli /\ InitAssetIdle /\ InitPurge

Next ==
    \/ Main
    \/ CallPybartConfig
    \/ PybartConfig
    \/ Operation
    \/ PybartConfigEnd
    \/ MainEnd
    \/ AllocPreamble
    \/ AllocRequest
    \/ AllocPoll
    \/ AllocPollsExhausted
    \/ AllocLoopExit
    \/ AllocGrant
    \/ AllocAttach
    \/ PurgePreamble
    \/ PurgeListActive
    \/ PurgeWait
    \/ PurgeDelete

Spec == Init /\ [][Next]_vars

(***************************************************************************)
(* Strings and paths of the asset functions.  A string is a sequence of    *)
(* tokens: "=", " " and "/" stand for themselves, every other token is a   *)
(* run of characters holding none of the three.                            *)
(***************************************************************************)
RECURSIVE LStrip(_)
LStrip(s) == IF s # <<>> /\ Head(s) = " " THEN LStrip(Tail(s)) ELSE s

RECURSIVE RStrip(_)
RStrip(s) ==
    IF s # <<>> /\ s[Len(s)] = " " THEN RStrip(SubSeq(s, 1, Len(s) - 1)) ELSE s

\* str.strip()
Strip(s) == RStrip(LStrip(s))

\* str.startswith(prefix)
StartsWith(s, prefix) ==
    Len(s) >= Len(prefix) /\ SubSeq(s, 1, Len(prefix)) = prefix

\* the tokens of s before the first token t (all of s when t is not in it)
RECURSIVE Before(_, _)
Before(s, t) ==
    IF s = <<>> \/ Head(s) = t THEN <<>> ELSE <<Head(s)>> \o Before(Tail(s), t)

\* the tokens of s after the first token t (none when t is not in it)
RECURSIVE After(_, _)
After(s, t) ==
    IF s = <<>> THEN <<>> ELSE IF Head(s) = t THEN Tail(s) ELSE After(Tail(s), t)

\* s.split('=')[1] of a string that holds an '='
SplitEq1(s) == Before(After(s, "="), "=")

\* a replacement that leaves the spaces in
KeepSpaces(s) == s

\* str.replace(' ', '')
RECURSIVE RemoveSpaces(_)
RemoveSpaces(s) ==
    IF s = <<>> THEN <<>>
    ELSE (IF Head(s) = " " THEN <<>> ELSE <<Head(s)>>) \o RemoveSpaces(Tail(s))

\* str.lower(), token by token
LowerToken(t) ==
    CASE t = "Software" -> "software"
      [] t = "SOFTWARE" -> "software"
      [] t = "Scenario" -> "scenario"
      [] OTHER -> t
LowerStr(s) == [i \in DOMAIN s |-> LowerToken(s[i])]

\* os.path.join(a, b)
PathJoin(a, b) ==
    IF b # <<>> /\ Head(b) = "/" THEN b
    ELSE IF a = <<>> \/ a[Len(a)] = "/" THEN a \o b
    ELSE a \o <<"/">> \o b

\* the segments of a path, without the empty ones and the "." ones
RECURSIVE Segments(_)
Segments(path) ==
    IF path = <<>> THEN <<>>
    ELSE IF Head(path) \in {"/", "."} THEN Segments(Tail(path))
    ELSE <<Head(path)>> \o Segments(Tail(path))

\* asset_dir_path, the argument of both asset functions
AssetRoot == <<"/", "assets", "/", "myasset">>

\* an entry of the asset directory: a path below the root, file or directory
Entry(path, isDir) == [path |-> path, dir |-> isDir]
File(path) == Entry(path, FALSE)
Dir(path) == Entry(path, TRUE)

\* whether the path lies in the asset directory, and where
InAsset(path) == StartsWith(Segments(path), Segments(AssetRoot))
RelPath(path) ==
    SubSeq(Segments(path), Len(Segments(AssetRoot)) + 1, Len(Segments(path)))

\* a test that takes a directory for a file: os.path.exists(path)
PathExists(fs, path) ==
    /\ path # <<>>
    /\ InAsset(path)
    /\ \E e \in fs : e.path = RelPath(path)

\* files of the machine that lie outside the asset directory
OutsideFiles == { <<"/", "opt", "install.sh">> }

\* os.path.isfile(path)
IsFile(fs, path) ==
    /\ path # <<>>
    /\ path[Len(path)] # "/"
    /\ \/ path \in OutsideFiles
       \/ InAsset(path) /\ File(RelPath(path)) \in fs

\* os.path.isdir(path)
IsDir(fs, path) ==
    /\ InAsset(path)
    /\ RelPath(path) = <<>> \/ Dir(RelPath(path)) \in fs

\* os.listdir(asset_dir_path), as a set
RootItems(fs) == {e.path[1] : e \in {x \in fs : Len(x.path) = 1}}

(***************************************************************************)
(* validate_asset_structure                                                *)
(***************************************************************************)
ignore_files == {".DS_Store", ".gitignore", "._"}
ignore_dirs == {".git", ".svn", ".cons3rt"}
ignore_items == ignore_files \cup ignore_dirs
acceptable_dirs == {"scripts", "media", "config"}
potential_doc_files == {"HELP.html", "README.html", "HELP", "README", "HELP.md",
                        "README.md", "ALTERNATE_README"}
potential_license_files == {"LICENSE.html", "LICENSE", "LICENSE.md",
                            "ALTERNATE_LICENSE"}

\* a property not found (None) and a property found with its value
PropNone == [set |-> FALSE, val |-> <<>>]
PropVal(v) == [set |-> TRUE, val |-> v]
\* truth value of a property: None and '' are false
Truthy(p) == p.set /\ p.val # <<>>

\* properties that start with a name in place
PropsWithDefaultName ==
    [install_script_rel_path |-> PropNone, doc_file_rel_path |-> PropNone,
     license_file_rel_path |-> PropNone, asset_type |-> PropNone,
     asset_name |-> PropVal(<<"unnamed">>)]

\* lines 1795-1801: the properties before the manifest is read
NoProps == [install_script_rel_path |-> PropNone, doc_file_rel_path |-> PropNone,
            license_file_rel_path |-> PropNone, asset_type |-> PropNone,
            asset_name |-> PropNone]

\* a reading in which the first line with a key is the one that counts
ReadLineFirstWins(props, line) ==
    LET s == Strip(line) IN
    IF StartsWith(s, <<"installScript", "=">>)
    THEN IF props.install_script_rel_path.set THEN props
         ELSE [props EXCEPT !.install_script_rel_path =
                                PropVal(PathJoin(<<"scripts">>, SplitEq1(s)))]
    ELSE IF StartsWith(s, <<"documentationFile", "=">>)
    THEN IF props.doc_file_rel_path.set THEN props
         ELSE [props EXCEPT !.doc_file_rel_path = PropVal(SplitEq1(s))]
    ELSE IF StartsWith(s, <<"licenseFile", "=">>)
    THEN IF props.license_file_rel_path.set THEN props
         ELSE [props EXCEPT !.license_file_rel_path = PropVal(SplitEq1(s))]
    ELSE IF StartsWith(s, <<"assetType", "=">>)
    THEN IF props.asset_type.set THEN props
         ELSE [props EXCEPT !.asset_type = PropVal(LowerStr(SplitEq1(s)))]
    ELSE IF StartsWith(s, <<"name", "=">>)
    THEN IF props.asset_name.set THEN props
         ELSE [props EXCEPT !.asset_name = PropVal(SplitEq1(s))]
    ELSE props

\* lines 1806-1817: the effect of one line of asset.properties
ReadLine(props, line) ==
    LET s == Strip(line) IN
    IF StartsWith(s, <<"installScript", "=">>)
    THEN [props EXCEPT !.install_script_rel_path =
                           PropVal(PathJoin(<<"scripts">>, SplitEq1(s)))]
    ELSE IF StartsWith(s, <<"documentationFile", "=">>)
    THEN [props EXCEPT !.doc_file_rel_path = PropVal(SplitEq1(s))]
    ELSE IF StartsWith(s, <<"licenseFile", "=">>)
    THEN [props EXCEPT !.license_file_rel_path = PropVal(SplitEq1(s))]
    ELSE IF StartsWith(s, <<"assetType", "=">>)
    THEN [props EXCEPT !.asset_type = PropVal(LowerStr(SplitEq1(s)))]
    ELSE IF StartsWith(s, <<"name", "=">>)
    THEN [props EXCEPT !.asset_name = PropVal(SplitEq1(s))]
    ELSE props

\* lines 1804-1817: the properties after the first n lines
RECURSIVE ReadProps(_, _)
ReadProps(lines, n) ==
    IF n = 0 THEN NoProps ELSE ReadLine(ReadProps(lines, n - 1), lines[n])

\* the outcome of a validation: status "ok" with the name, or the exception;
\* fs is the directory as the run leaves it, examined the root items looked at
Outcome(status, msg, name, fs, examined) ==
    [status |-> status, msg |-> msg, name |-> name, fs |-> fs,
     examined |-> examined]
StructureError(msg, fs, examined) ==
    Outcome("Cons3rtAssetStructureError", msg, <<>>, fs, examined)

\* lines 1788-1869: the manifest is read and checked; the outcome is the
\* error of the first check that fails, or the properties the loop needs
Checked(status, msg, props, doc_file_path, license_file_path) ==
    [status |-> status, msg |-> msg, props |-> props,
     doc_file_path |-> doc_file_path, license_file_path |-> license_file_path]

ManifestChecks(fs, lines) ==
    LET asset_props == PathJoin(AssetRoot, <<"asset.properties">>)
        props == ReadProps(lines, Len(lines))
        doc_file_path ==
            IF Truthy(props.doc_file_rel_path)
            THEN PathJoin(AssetRoot, props.doc_file_rel_path.val) ELSE <<>>
        license_file_path ==
            IF Truthy(props.license_file_rel_path)
            THEN PathJoin(AssetRoot, props.license_file_rel_path.val) ELSE <<>>
        Failed(msg) == Checked("Cons3rtAssetStructureError", msg, NoProps, <<>>, <<>>)
    IN
    IF ~IsFile(fs, asset_props)
    THEN Failed("asset.properties not found")
    ELSE IF ~props.asset_name.set
    THEN Failed("name not found")
    ELSE IF props.asset_name.val = <<>>
    THEN Failed("name blank")
    ELSE IF ~props.asset_type.set
    THEN Failed("asset_type not found")
    ELSE IF props.asset_type.val = <<>>
    THEN Failed("asset_type blank")
    ELSE IF Truthy(props.doc_file_rel_path) /\ ~IsFile(fs, doc_file_path)
    THEN Failed("documentation file not found")
    ELSE IF Truthy(props.license_file_rel_path) /\ ~IsFile(fs, license_file_path)
    THEN Failed("license file not found")
    ELSE IF /\ props.asset_type.val = <<"software">>
            /\ ~Truthy(props.install_script_rel_path)
    THEN Failed("installScript missing")
    ELSE IF /\ props.asset_type.val = <<"software">>
            /\ ~IsFile(fs, PathJoin(AssetRoot, props.install_script_rel_path.val))
    THEN Failed("install script not found")
    ELSE Checked("ok", "checked", props, doc_file_path, license_file_path)

\* the tests by name alone, without the declared paths
ItemAcceptedByName(fs, item, c) ==
    \/ item = "asset.properties"
    \/ item \in ignore_items
    \/ item \in acceptable_dirs /\ IsDir(fs, PathJoin(AssetRoot, <<item>>))

\* the tests with one more, for the names of documentation and license files
ItemAcceptedKnownNames(fs, item, c) ==
    LET item_path == PathJoin(AssetRoot, <<item>>) IN
    \/ item_path = c.license_file_path
    \/ item_path = c.doc_file_path
    \/ item_path = PathJoin(AssetRoot, <<"asset.properties">>)
    \/ item \in ignore_items
    \/ item \in acceptable_dirs /\ IsDir(fs, item_path)
    \/ item \in potential_doc_files \cup potential_license_files

\* the tests without the one for the declared license file
ItemAcceptedNoLicense(fs, item, c) ==
    LET item_path == PathJoin(AssetRoot, <<item>>) IN
    \/ item_path = c.doc_file_path
    \/ item_path = PathJoin(AssetRoot, <<"asset.properties">>)
    \/ item \in ignore_items
    \/ item \in acceptable_dirs /\ IsDir(fs, item_path)

\* lines 1875-1884: the tests that let a root item pass
ItemAccepted(fs, item, c) ==
    LET item_path == PathJoin(AssetRoot, <<item>>) IN
    \/ item_path = c.license_file_path
    \/ item_path = c.doc_file_path
    \/ item_path = PathJoin(AssetRoot, <<"asset.properties">>)
    \/ item \in ignore_items
    \/ item \in acceptable_dirs /\ IsDir(fs, item_path)

\* a removal that leaves the file where it is
RemoveNothing(fs, item) == fs

\* line 1887: os.remove(item_path) of a file at the root
Remove(fs, item) == fs \ {File(<<item>>)}

\* lines 1872-1906: the loop over the root items, in the order of the listing
RECURSIVE CheckItems(_, _, _, _)
CheckItems(fs, order, i, c) ==
    IF i > Len(order)
    THEN Outcome("ok", "validated", c.props.asset_name.val, fs, Len(order))
    ELSE
    LET item == order[i]
        item_path == PathJoin(AssetRoot, <<item>>)
    IN
    IF ItemAccepted(fs, item, c)
    THEN CheckItems(fs, order, i + 1, c)
    ELSE IF item = "VERSION"
    THEN IF IsFile(fs, item_path)
         THEN CheckItems(Remove(fs, item), order, i + 1, c)
         ELSE Outcome("OSError", "os.remove", <<>>, fs, i)
    ELSE IF item = "doc"
    THEN StructureError("doc directory at the asset root", fs, i)
    ELSE IF item \in potential_doc_files
    THEN IF ~Truthy(c.props.doc_file_rel_path)
         THEN StructureError("documentation file not specified", fs, i)
         ELSE StructureError("extra documentation file", fs, i)
    ELSE IF item \in potential_license_files
    THEN IF ~Truthy(c.props.license_file_rel_path)
         THEN StructureError("license file not specified", fs, i)
         ELSE StructureError("extra license file", fs, i)
    ELSE StructureError("illegal item", fs, i)

RECURSIVE Orders(_)
\* the orders os.listdir may give the names in
Orders(S) ==
    IF S = {} THEN {<<>>}
    ELSE UNION {{<<x>> \o o : o \in Orders(S \ {x})} : x \in S}

\* validate_asset_structure(asset_dir_path): the outcomes it may have, one for
\* each order os.listdir may give the root items in
validate_asset_structure(fs, lines) ==
    LET c == ManifestChecks(fs, lines) IN
    IF c.status # "ok"
    THEN {StructureError(c.msg, fs, 0)}
    ELSE {CheckItems(fs, order, 1, c) : order \in Orders(RootItems(fs))}

(***************************************************************************)
(* make_asset_zip                                                          *)
(***************************************************************************)
\* the characters of the tokens of a string, as one file name
RECURSIVE Text(_)
Text(s) == IF s = <<>> THEN "" ELSE Head(s) \o Text(Tail(s))

\* sub in t, for the names of the ignore lists
HasSubstring(t, sub) ==
    \/ t = sub
    \/ <<t, sub>> \in {<<".gitignore", ".git">>, <<".gitkeep", ".git">>,
                       <<"notes.git", ".git">>}

\* t.startswith(pre), for the names of the ignore lists
HasPrefix(t, pre) ==
    \/ t = pre
    \/ <<t, pre>> \in {<<"._thumb", "._">>, <<".gitignore", ".git">>,
                       <<".gitkeep", ".git">>}

\* the path of an entry as os.walk hands it over: root joined with the name
RECURSIVE WalkPath(_)
WalkPath(segments) ==
    IF segments = <<>> THEN AssetRoot
    ELSE PathJoin(WalkPath(SubSeq(segments, 1, Len(segments) - 1)),
                  <<segments[Len(segments)]>>)

\* the walk leaving out by the file name alone
SkippedByName(segments) ==
    \E ignore_file \in ignore_files : HasPrefix(segments[Len(segments)], ignore_file)

\* lines 1966-1976: whether the walk leaves the file out
Skipped(segments) ==
    LET file_path == WalkPath(segments)
        f == segments[Len(segments)]
    IN
    \/ \E ignore_dir \in ignore_dirs :
          \E i \in DOMAIN file_path : HasSubstring(file_path[i], ignore_dir)
    \/ \E ignore_file \in ignore_files : HasPrefix(f, ignore_file)

\* lines 1983-1986: the name of the file inside the archive
ArchiveName(segments) ==
    LET root == WalkPath(SubSeq(segments, 1, Len(segments) - 1))
        rel == SubSeq(root, Len(AssetRoot) + 1, Len(root))
        archive_name == PathJoin(rel, <<segments[Len(segments)]>>)
    IN IF archive_name # <<>> /\ Head(archive_name) = "/"
       THEN Tail(archive_name) ELSE archive_name

\* lines 1959-1988: the names written to the archive
ArchiveEntries(fs) ==
    {ArchiveName(e.path) : e \in {x \in fs : ~x.dir /\ ~Skipped(x.path)}}

\* the directory the zip goes to: ~/Downloads unless one is given
DestinationPath(dest) ==
    IF dest.arg = "None" THEN <<"/", "home", "/", "Downloads">>
    ELSE <<"/", "out">>

\* lines 1946-1950: the path of the zip file
ZipFilePath(dest, asset_name) ==
    PathJoin(DestinationPath(dest),
             <<"asset-" \o Text(RemoveSpaces(asset_name)) \o ".zip">>)

\* the outcome of make_asset_zip: the path of the zip or the exception, with
\* the asset directory, the destination and its zip files as the run leaves them
ZipOutcome(status, msg, v, zip_file_path, dest, zs) ==
    [status |-> status, msg |-> msg, name |-> v.name, fs |-> v.fs,
     examined |-> v.examined, zip_file_path |-> zip_file_path,
     dest |-> dest, zips |-> zs]

\* the existing zip file moved out of the way, not deleted
KeepExisting(zs, zip_file_path) ==
    {[z EXCEPT !.path = IF z.path = zip_file_path
                        THEN zip_file_path \o <<".bak">> ELSE z.path] : z \in zs}

\* lines 1953-1955: an existing zip file at the path is removed
RemoveExisting(zs, zip_file_path) == {z \in zs : z.path # zip_file_path}

\* make_asset_zip with no except clause around the validation
AfterValidationUnwrapped(v, dest, zs) ==
    IF v.status # "ok"
    THEN ZipOutcome(v.status, v.msg, v, <<>>, dest, zs)
    ELSE LET zip_file_path == ZipFilePath(dest, v.name) IN
         ZipOutcome("ok", "created", v, zip_file_path, dest,
             RemoveExisting(zs, zip_file_path)
                 \cup {[path |-> zip_file_path, entries |-> ArchiveEntries(v.fs)]})

\* lines 1937-1994: make_asset_zip from the outcome v of the validation on
AfterValidation(v, dest, zs) ==
    IF v.status = "Cons3rtAssetStructureError"
    THEN ZipOutcome("AssetZipCreationError", v.msg, v, <<>>, dest, zs)
    ELSE IF v.status # "ok"
    THEN ZipOutcome(v.status, v.msg, v, <<>>, dest, zs)
    ELSE LET zip_file_path == ZipFilePath(dest, v.name) IN
         ZipOutcome("ok", "created", v, zip_file_path, dest,
             RemoveExisting(zs, zip_file_path)
                 \cup {[path |-> zip_file_path, entries |-> ArchiveEntries(v.fs)]})

\* make_asset_zip(asset_dir_path, destination_directory): its outcomes
make_asset_zip(fs, lines, asset_dir_path, dest, zs) ==
    LET untouched == Outcome("none", "none", <<>>, fs, 0)
        \* lines 1927-1929: the default destination is created when missing
        made == IF dest.arg = "None" /\ dest.state = "absent"
                THEN [dest EXCEPT !.state = "dir"] ELSE dest
    IN
    IF ~IsDir(fs, asset_dir_path)
    THEN {ZipOutcome("AssetZipCreationError", "asset_dir_path is not a directory",
                     untouched, <<>>, dest, zs)}
    ELSE IF made.state # "dir"
    THEN {ZipOutcome("AssetZipCreationError",
                     "destination_directory is not a directory",
                     untouched, <<>>, made, zs)}
    ELSE {AfterValidation(v, made, zs) : v \in validate_asset_structure(fs, lines)}

(***************************************************************************)
(* The asset run: one validation, or make_asset_zip once or twice          *)
(***************************************************************************)
NoResult ==
    [op |-> "none", status |-> "none", msg |-> "none", name |-> <<>>,
     examined |-> 0, zip_file_path |-> <<>>]

\* a call of validate_asset_structure on the asset directory
ValidateAssetStructure ==
    /\ apc = "idle"
    /\ \E v \in validate_asset_structure(assetDir, manifest) :
          /\ assetDir' = v.fs
          /\ result' = [op |-> "validate_asset_structure", status |-> v.status,
                        msg |-> v.msg, name |-> v.name, examined |-> v.examined,
                        zip_file_path |-> <<>>]
    /\ apc' = "validated"
    /\ UNCHANGED <<manifest, destination, zips>>
    /\ UNCHANGED cliVars
    /\ UNCHANGED purgeVars

\* the destination_directory arguments and the state of the directory named
Destinations ==
    {[arg |-> "None", state |-> "absent"], [arg |-> "None", state |-> "dir"],
     [arg |-> "given", state |-> "absent"], [arg |-> "given", state |-> "dir"],
     [arg |-> "given", state |-> "file"]}

\* the asset_dir_path arguments: the asset directory, or a file inside it
AssetDirArgs(fs) ==
    {AssetRoot} \cup
    (IF apc = "idle" /\ File(<<"asset.properties">>) \in fs
     THEN {PathJoin(AssetRoot, <<"asset.properties">>)} ELSE {})

\* a call of make_asset_zip, and a second one with the same arguments
MakeAssetZip ==
    /\ apc \in {"idle", "zipped"}
    /\ \E asset_dir_path \in AssetDirArgs(assetDir) :
       \E z \in make_asset_zip(assetDir, manifest, asset_dir_path, destination, zips) :
          /\ assetDir' = z.fs
          /\ destination' = z.dest
          /\ zips' = z.zips
          /\ result' = [op |-> "make_asset_zip", status |-> z.status,
                        msg |-> z.msg, name |-> z.name, examined |-> z.examined,
                        zip_file_path |-> z.zip_file_path]
    /\ apc' = IF apc = "idle" THEN "zipped" ELSE "zipped_twice"
    /\ UNCHANGED manifest
    /\ UNCHANGED cliVars
    /\ UNCHANGED purgeVars

(***************************************************************************)
(* The asset directories and manifests the asset run starts from           *)
(***************************************************************************)
MaxLines == 3
MaxItems == 2

\* a line key=value of asset.properties
Line(key, value) == <<key, "=">> \o value

\* lines a manifest is made of
LinePool ==
    { <<" ">> \o Line("name", <<"My", " ", "Asset">>) \o <<" ">>,
      Line("name", <<"A", "=", "B">>),
      Line("name", <<>>),
      Line("assetType", <<"scenario">>),
      Line("assetType", <<"Software">>),
      Line("assetType", <<>>) \o <<" ">>,
      Line("installScript", <<"install.sh">>),
      Line("documentationFile", <<"README.md">>),
      Line("documentationFile", <<"doc">>) }

\* the manifests of at most n lines of the pool, no line twice
RECURSIVE ManifestsOfLength(_)
ManifestsOfLength(n) ==
    IF n = 0 THEN {<<>>}
    ELSE {Append(m, l) : <<m, l>> \in
             {x \in ManifestsOfLength(n - 1) \X LinePool :
                 \A i \in DOMAIN x[1] : x[1][i] # x[2]}}
Manifests == UNION {ManifestsOfLength(n) : n \in 0..MaxLines}

PlainManifest ==
    << Line("name", <<"My", " ", "Asset">>), Line("assetType", <<"scenario">>) >>

\* manifests every directory is tried with
BaseManifests ==
    { PlainManifest,
      PlainManifest \o << Line("documentationFile", <<"README.md">>),
                          Line("licenseFile", <<"LICENSE">>) >>,
      PlainManifest \o << Line("documentationFile", <<".", "/", "README.md">>) >>,
      PlainManifest \o << Line("documentationFile", <<"doc">>) >>,
      PlainManifest \o << Line("documentationFile", <<"VERSION">>) >>,
      PlainManifest \o << Line("documentationFile", <<"LICENSE">>) >>,
      PlainManifest \o << Line("documentationFile", <<"doc", "/", "guide.txt">>) >>,
      << Line("name", <<"Tool">>), Line("assetType", <<"software">>),
         Line("installScript", <<"install.sh">>) >> }

\* manifests in which every key comes twice, with the values that pass in
\* the second place and in the first
RepeatedKeyManifests ==
    { << Line("name", <<"Old">>), Line("name", <<"Tool">>),
         Line("assetType", <<"scenario">>), Line("assetType", <<"software">>),
         Line("installScript", <<"setup.sh">>),
         Line("installScript", <<"install.sh">>),
         Line("documentationFile", <<"doc">>),
         Line("documentationFile", <<"README.md">>),
         Line("licenseFile", <<"LICENSE">>),
         Line("licenseFile", <<"README.md">>) >>,
      << Line("name", <<"Tool">>), Line("name", <<"Old">>),
         Line("assetType", <<"software">>), Line("assetType", <<"scenario">>),
         Line("installScript", <<"install.sh">>),
         Line("installScript", <<"setup.sh">>),
         Line("documentationFile", <<"README.md">>),
         Line("documentationFile", <<"doc">>),
         Line("licenseFile", <<"README.md">>),
         Line("licenseFile", <<"LICENSE">>) >> }

\* a software asset whose installScript is an absolute path
AbsoluteScriptManifest ==
    << Line("name", <<"Tool">>), Line("assetType", <<"Software">>),
       Line("installScript", <<"/", "opt", "install.sh">>),
       Line("documentationFile", <<"README.md">>) >>

\* an asset of another type whose installScript names a file that is missing
UnusedScriptManifest ==
    << Line("name", <<"My", " ", "Asset">>), Line("assetType", <<"scenario">>),
       Line("installScript", <<"setup.sh">>),
       Line("documentationFile", <<"README.md">>) >>

ManifestFile == File(<<"asset.properties">>)

\* what may lie at the root of an asset directory, each with what is below it
RootPool ==
    { {Dir(<<"scripts">>), File(<<"scripts", "install.sh">>),
       File(<<"scripts", ".gitkeep">>)},
      {Dir(<<"media">>), File(<<"media", "logo.png">>)},
      {File(<<"media">>)},
      {Dir(<<".git">>), File(<<".git", "config">>)},
      {File(<<".DS_Store">>)},
      {File(<<"._thumb">>)},
      {Dir(<<"doc">>), File(<<"doc", "guide.txt">>)},
      {File(<<"doc">>)},
      {File(<<"VERSION">>)},
      {Dir(<<"VERSION">>)},
      {File(<<"README.md">>)},
      {File(<<"README">>)},
      {File(<<"LICENSE">>)},
      {File(<<"notes.txt">>)} }

\* no name is a file and a directory at once
Consistent(fs) == \A e \in fs : Entry(e.path, ~e.dir) \notin fs

\* the asset directories with a manifest file and at most MaxItems more items
AssetDirs ==
    {fs \in {{ManifestFile} \cup UNION S :
                S \in {T \in SUBSET RootPool : Cardinality(T) <= MaxItems}} :
        Consistent(fs)}

\* directories every manifest is tried with
BaseDirs ==
    { {ManifestFile, File(<<"README.md">>),
       Dir(<<"scripts">>), File(<<"scripts", "install.sh">>)},
      {ManifestFile, Dir(<<"doc">>), File(<<"doc", "guide.txt">>)},
      {ManifestFile, File(<<"doc">>), File(<<"VERSION">>)} }

\* directories without a manifest file
NoManifestDirs == { {}, {Dir(<<"asset.properties">>)}, {File(<<"notes.txt">>)} }

\* the call whose destination exists
StandardDestination == [arg |-> "given", state |-> "dir"]

\* the asset run starts from any manifest in a base directory, from a base
\* manifest in any directory, or from a base manifest in a base directory
\* with any destination
AssetInputs ==
    /\ \/ /\ manifest \in Manifests \cup RepeatedKeyManifests
                               \cup {AbsoluteScriptManifest, UnusedScriptManifest}
          /\ assetDir \in BaseDirs
          /\ destination = StandardDestination
       \/ /\ manifest \in BaseManifests
          /\ assetDir \in AssetDirs \cup NoManifestDirs
          /\ destination = StandardDestination
       \/ /\ manifest \in BaseManifests
          /\ assetDir \in BaseDirs
          /\ destination \in Destinations
    /\ zips = {}
    /\ result = NoResult
    /\ apc = "idle"

InitAsset == InitCli /\ AssetInputs /\ InitPurge

NextAsset ==
    \/ ValidateAssetStructure
    \/ MakeAssetZip

SpecAsset == InitAsset /\ [][NextAsset]_vars

(***************************************************************************)
(* Properties of the allocator and of the command line                     *)
(***************************************************************************)
\* the configured numbers of retries and of queries
MaxRetriesOf == retries.val
MaxQueriesOf == queries.val

\* responses that affirm success, whatever their case
Affirming == {"true", "True", "TRUE"}

\* positions inside allocate_virtualization_realm
AllocPcs == {"alloc_pre", "alloc_loop", "alloc_poll", "alloc_grant", "alloc_attach"}

\* so far every request was affirmed and every poll returned no id
OnlyAffirmedNoId ==
    /\ NormMode(mode) = "allocate"
    /\ nRequests >= 1
    /\ found.type = "NoneType"
    /\ err.kind = "none" \/ err = ExhaustedError

\* C1: with maxRetries >= 1 and maxQueries >= 1, every request affirmed and
\* every poll returning no id, the allocator issues exactly maxRetries
\* requests and maxRetries * maxQueries polls and then raises the exhaustion
\* error: never more than that, and exactly that when the error is raised.
C1_ExactBudgetThenExhausted ==
    (OnlyAffirmedNoId /\ MaxRetriesOf >= 1 /\ MaxQueriesOf >= 1) =>
        /\ nRequests <= MaxRetriesOf
        /\ nPolls <= MaxRetriesOf * MaxQueriesOf
        /\ err = ExhaustedError =>
              /\ nRequests = MaxRetriesOf
              /\ nPolls = MaxRetriesOf * MaxQueriesOf

\* a step in which an allocation request returned the response allocated'
RequestReturned ==
    /\ pc = "alloc_loop"
    /\ nRequests' = nRequests + 1
    /\ ~(pc' = "op_raised" /\ err'.msg = "allocate_virtualization_realm")

\* C2: a request whose response does not affirm success raises the refusal
\* error in that very step, with no poll issued for it; after the refusal no
\* further request and no poll is issued; a refusal of the first attempt
\* leaves exactly 1 request and 0 polls.
C2_RefusalIsImmediate ==
    /\ [][(RequestReturned /\ allocated' \notin Affirming) =>
              /\ pc' = "op_raised"
              /\ err' = RefusedError
              /\ nPolls' = nPolls
              /\ pollsSince' = 0]_vars
    /\ [][err = RefusedError =>
              /\ nRequests' = nRequests
              /\ nPolls' = nPolls
              /\ pc' \notin AllocPcs]_vars
    /\ []((err = RefusedError /\ retry_count = 0) =>
              (nRequests = 1 /\ nPolls = 0))

\* a later retry was refused, after polls of the earlier requests
C2_Witness ==
    /\ err = RefusedError
    /\ allocated = "False"
    /\ nRequests = 2
    /\ nPolls = 2
    /\ pollsSince = 0

\* C3: the exhaustion error is raised only when the whole budget is used up:
\* maxRetries requests, all affirmed, each followed by maxQueries polls, none
\* of which returned a realm id.
C3_ExhaustedOnlyAfterFullBudget ==
    err = ExhaustedError =>
        /\ nRequests = MaxRetriesOf
        /\ nPolls = MaxRetriesOf * MaxQueriesOf
        /\ retry_count = MaxRetriesOf
        /\ found.type = "NoneType"
        /\ vr_id.type = "NoneType"
        /\ nRequests >= 1 => (allocated \in Affirming /\ pollsSince = MaxQueriesOf)
        /\ postCalls = <<>>

C3_Witness ==
    /\ err = ExhaustedError
    /\ nRequests = 2
    /\ nPolls = 4

\* C4 as claimed: the refusal of a request is never the error kind of the
\* exhaustion failure.
C4_DistinctErrorKinds ==
    err.msg = MsgReturned => err.kind # ExhaustedError.kind

\* C4, amended: the refusal and the exhaustion are raised as the same error
\* kind, BartError, and differ in their message alone.
C4_SameKindDistinctMessage ==
    /\ [][(RequestReturned /\ allocated' \notin Affirming) =>
              /\ err'.kind = "BartError"
              /\ err'.msg = MsgReturned]_vars
    /\ [][(pc = "alloc_loop" /\ pc' = "op_raised" /\ nRequests' = nRequests) =>
              /\ err'.kind = "BartError"
              /\ err'.kind = RefusedError.kind
              /\ err'.msg # RefusedError.msg]_vars

C4_Witness ==
    /\ pc = "op_raised"
    /\ err.kind = "BartError"
    /\ err.msg = MsgFailedAfter
    /\ nRequests = 1

GrantOp == "add_virtualization_realm_admin"
AttachOp == "add_project_to_virtualization_realm"

\* C5: the admin grant and then the project attach are made on the id a poll
\* returned, the attach with a single project id; neither is made before a
\* poll returned an id, nor in a run that ends refused or exhausted.
C5_GrantThenAttachSingleProject ==
    /\ \A i \in DOMAIN postCalls :
          /\ found.type = "int"
          /\ postCalls[i].vr_id = found
          /\ postCalls[i].op = GrantOp => i = 1
          /\ postCalls[i].op = AttachOp =>
                /\ i = 2
                /\ postCalls[1].op = GrantOp
                /\ postCalls[i].project_id.type = "int"
    /\ (err = RefusedError \/ err = ExhaustedError) => postCalls = <<>>

\* C6: a failed admin grant or project attach leaves the function as the
\* client's error; after a failed grant no attach is attempted, after a
\* failed attach nothing further is called, and no call other than the grant
\* and the attach is ever made on the allocated realm.
C6_NoCompensation ==
    /\ Len(postCalls) <= 2
    /\ \A i \in DOMAIN postCalls :
          /\ postCalls[i].op = (IF i = 1 THEN GrantOp ELSE AttachOp)
          /\ postCalls[i].vr_id = found
          /\ ~postCalls[i].ok =>
                /\ i = Len(postCalls)
                /\ pc \notin AllocPcs
                /\ pc # "op_done"
                /\ err.kind \in ClientErrors
                /\ err.msg = postCalls[i].op
          /\ (i = 2) => postCalls[1].ok

\* the project attach failed after a successful admin grant
C6_Witness ==
    /\ Len(postCalls) = 2
    /\ postCalls[1].ok
    /\ ~postCalls[2].ok
    /\ pc = "op_raised"

\* the operation ended in an error, or the mode is not supported
EndedInError ==
    \/ err.kind # "none"
    \/ NormMode(mode) \notin {"none", "register", "allocate", "deallocate",
                               "unregister"}

\* C7: main() ends with a non-zero status when the operation ended in an
\* error or the mode is unsupported, and with 0 only otherwise.
C7_ExitStatusReflectsError ==
    pc = "exited" => (exitStatus = 0 <=> ~EndedInError)


(***************************************************************************)
(* The asset properties.  What the manifest declares is read here from the *)
(* manifest text: the value of a key is what follows the first "=" of the  *)
(* last line that starts with the key.                                     *)
(***************************************************************************)
RECURSIVE Declared(_, _, _)
Declared(lines, key, n) ==
    IF n = 0 THEN PropNone
    ELSE LET s == Strip(lines[n]) IN
         IF StartsWith(s, <<key, "=">>)
         THEN PropVal(SubSeq(s, 3, Len(s)))
         ELSE Declared(lines, key, n - 1)

DeclaredValue(key) == Declared(manifest, key, Len(manifest))

\* the declared file is there, below the directory it is resolved against
DeclaredFilePresent(key, base) ==
    Truthy(DeclaredValue(key)) =>
        File(base \o Segments(DeclaredValue(key).val)) \in assetDir

\* a root item the structure allows
AllowedRootItem(item) ==
    \/ item \in ignore_items
    \/ <<item>> = DeclaredValue("documentationFile").val
    \/ <<item>> = DeclaredValue("licenseFile").val
    \/ item \in acceptable_dirs /\ Dir(<<item>>) \in assetDir
    \/ item = "VERSION"
    \/ item = "asset.properties"

\* a valid asset directory.  A validation changes the directory only by
\* removing VERSION, which none of the conditions depends on.
ValidAssetDir ==
    /\ ManifestFile \in assetDir
    /\ Truthy(DeclaredValue("name"))
    /\ Truthy(DeclaredValue("assetType"))
    /\ DeclaredFilePresent("documentationFile", <<>>)
    /\ DeclaredFilePresent("licenseFile", <<>>)
    /\ LowerStr(DeclaredValue("assetType").val) = <<"software">> =>
           /\ Truthy(DeclaredValue("installScript"))
           /\ DeclaredFilePresent("installScript", <<"scripts">>)
    /\ \A item \in RootItems(assetDir) : AllowedRootItem(item)

\* C8: for every valid asset directory (with no directory named VERSION),
\* validate_asset_structure returns the value of the manifest's name
\* property, unchanged.
C8_ReturnsManifestName ==
    (/\ result.op = "validate_asset_structure"
     /\ ValidAssetDir
     /\ Dir(<<"VERSION">>) \notin assetDir)
        => /\ result.status = "ok"
           /\ result.name = DeclaredValue("name").val

\* C9: when the asset directory holds a root item that is not allowed,
\* validate_asset_structure raises the structural error, and make_asset_zip
\* raises its own error and creates no zip file.
C9_DisallowedItemIsStructuralError ==
    (/\ apc \in {"validated", "zipped"}
     /\ \E item \in RootItems(assetDir) : ~AllowedRootItem(item))
        => /\ result.op = "validate_asset_structure" =>
                  result.status = "Cons3rtAssetStructureError"
           /\ result.op = "make_asset_zip" =>
                  result.status = "AssetZipCreationError"
           /\ zips = {}

\* C10: an asset directory with a directory named doc at its root never
\* passes validation: validate_asset_structure returns no name for it and
\* make_asset_zip creates no zip file from it, whatever the manifest and the
\* other root items are.
C10_DocDirectoryNeverPasses ==
    (apc # "idle" /\ Dir(<<"doc">>) \in assetDir)
        => /\ result.status \notin {"ok", "none"}
           /\ result.name = <<>>
           /\ result.zip_file_path = <<>>
           /\ zips = {}

\* a manifest that passes every check is validated in a directory with a doc
\* directory, and the loop rejects the directory
C10_Witness ==
    /\ apc = "validated"
    /\ Dir(<<"doc">>) \in assetDir
    /\ Truthy(DeclaredValue("name"))
    /\ result.status = "Cons3rtAssetStructureError"
    /\ result.msg = "doc directory at the asset root"
    /\ result.examined >= 1

\* the VERSION file of the root is what the manifest declares as its
\* documentation or license file
VersionDeclared ==
    \/ DeclaredValue("documentationFile").val = <<"VERSION">>
    \/ DeclaredValue("licenseFile").val = <<"VERSION">>

\* a validation of a valid asset directory with a VERSION file at its root
ValidatesWithVersion ==
    /\ apc = "idle"
    /\ result'.op = "validate_asset_structure"
    /\ File(<<"VERSION">>) \in assetDir
    /\ ValidAssetDir

\* the validation returned a name and removed the VERSION file, nothing else
VersionRemoved ==
    /\ result'.status = "ok"
    /\ result'.name # <<>>
    /\ File(<<"VERSION">>) \notin assetDir'
    /\ assetDir' = assetDir \ {File(<<"VERSION">>)}

\* C11 as claimed: the validation of an otherwise valid asset directory with
\* a VERSION file at its root returns the name and deletes VERSION.
C11_VersionAlwaysDeleted ==
    [][ValidatesWithVersion => VersionRemoved]_vars

\* C11, amended: the validation of an otherwise valid asset directory with a
\* VERSION file at its root returns the name; it deletes VERSION unless the
\* manifest declares VERSION as the documentation or license file, and then
\* it leaves the directory as it is.
C11_UndeclaredVersionDeleted ==
    [][ValidatesWithVersion =>
          IF VersionDeclared
          THEN result'.status = "ok" /\ assetDir' = assetDir
          ELSE VersionRemoved]_vars

\* a validation that returned a name looked at more root items than the
\* directory holds afterwards: VERSION was there and is gone
C11_Witness ==
    /\ apc = "validated"
    /\ result.status = "ok"
    /\ File(<<"VERSION">>) \notin assetDir
    /\ ~VersionDeclared
    /\ result.examined = Cardinality(RootItems(assetDir)) + 1

\* C12: a second make_asset_zip on the same asset directory and destination,
\* right after one that succeeded, succeeds too: it returns the same path,
\* the destination holds one zip file at that path and no other, and the
\* archive-relative paths in it are those the first call wrote; the asset
\* directory is left as the first call left it.
C12_SecondZipOverwrites ==
    [][(apc = "zipped" /\ result.status = "ok" /\ apc' = "zipped_twice") =>
          /\ result'.status = "ok"
          /\ result'.zip_file_path = result.zip_file_path
          /\ result'.name = result.name
          /\ zips' = zips
          /\ \E z \in zips' : /\ z.path = result'.zip_file_path
                              /\ zips' = {z}
          /\ assetDir' = assetDir
          /\ destination' = destination]_vars

\* two calls succeeded and left one zip with files of the root and below it
C12_Witness ==
    /\ apc = "zipped_twice"
    /\ result.status = "ok"
    /\ \E z \in zips : /\ zips = {z}
                       /\ <<"asset.properties">> \in z.entries
                       /\ \E e \in z.entries : Len(e) > 1

\* the relative path of a file as text: its segments with "/" between them
RECURSIVE Joined(_)
Joined(segments) ==
    IF Len(segments) <= 1 THEN segments
    ELSE <<Head(segments), "/">> \o Joined(Tail(segments))

\* names of the model's files that start with "._"
DotUnderscoreNames == {"._", "._thumb"}

\* C13: every entry of a zip file written is the path, relative to the asset
\* root and with no leading separator, of a file of the asset directory; no
\* entry has a .git, .svn or .cons3rt directory above it or is named
\* .DS_Store, .gitignore or with the prefix "._"; asset.properties is an
\* entry, and so is media/logo.png when the directory holds it.
C13_ArchiveEntries ==
    \A z \in zips :
       /\ \A e \in z.entries :
             LET segments == Segments(e) IN
             /\ e # <<>>
             /\ Head(e) # "/"
             /\ e = Joined(segments)
             /\ File(segments) \in assetDir
             /\ \A i \in 1..(Len(segments) - 1) : segments[i] \notin ignore_dirs
             /\ segments[Len(segments)] \notin
                    {".DS_Store", ".gitignore"} \cup DotUnderscoreNames
       /\ <<"asset.properties">> \in z.entries
       /\ File(<<"media", "logo.png">>) \in assetDir =>
              <<"media", "/", "logo.png">> \in z.entries

\* a zip was written of a directory with a .git directory and media/logo.png
C13_Witness ==
    /\ apc = "zipped"
    /\ File(<<".git", "config">>) \in assetDir
    /\ \E z \in zips : z.entries = {<<"asset.properties">>,
                                    <<"media", "/", "logo.png">>}

\* the name with every space taken out, as one word
NameWithoutSpaces(name) == Text(SelectSeq(name, LAMBDA t : t # " "))

\* the directory the caller named, or Downloads in the home directory
DestinationDirectory ==
    IF destination.arg = "given" THEN <<"/", "out">>
    ELSE <<"/", "home", "/", "Downloads">>

\* C14: a make_asset_zip that succeeded returns the path of the destination
\* directory followed by "asset-", the validated name with every space
\* removed, and ".zip"; the zip file written is at that path, and the name
\* "My Asset" gives asset-MyAsset.zip.
C14_ZipFileName ==
    (result.op = "make_asset_zip" /\ result.status = "ok") =>
        /\ result.zip_file_path =
               DestinationDirectory \o
                   <<"/", "asset-" \o NameWithoutSpaces(result.name) \o ".zip">>
        /\ \E z \in zips : z.path = result.zip_file_path
        /\ destination.state = "dir"
        /\ result.name = <<"My", " ", "Asset">> =>
               result.zip_file_path[Len(result.zip_file_path)] = "asset-MyAsset.zip"

\* the asset named "My Asset" was zipped into the directory the caller named
C14_Witness ==
    /\ apc = "zipped"
    /\ result.status = "ok"
    /\ result.name = <<"My", " ", "Asset">>
    /\ result.zip_file_path = <<"/", "out", "/", "asset-MyAsset.zip">>

\* the messages of the two checks make_asset_zip makes before it validates
ArgumentMsgs == {"asset_dir_path is not a directory",
                 "destination_directory is not a directory"}

\* a call of make_asset_zip that went as far as the validation
ZipValidated ==
    /\ apc \in {"idle", "zipped"}
    /\ result'.op = "make_asset_zip"
    /\ result'.msg \notin ArgumentMsgs

\* C15: a make_asset_zip that reaches the validation ends as one of the
\* validation's outcomes does: when that outcome is the structural error,
\* make_asset_zip raises AssetZipCreationError with the structural error's
\* message and writes no zip file; AssetZipCreationError is raised for no
\* other outcome, and a Cons3rtAssetStructureError never leaves
\* make_asset_zip.
C15_StructuralErrorWrapped ==
    /\ [][ZipValidated =>
             \E v \in validate_asset_structure(assetDir, manifest) :
                /\ v.fs = assetDir'
                /\ v.examined = result'.examined
                /\ IF v.status = "Cons3rtAssetStructureError"
                   THEN /\ result'.status = "AssetZipCreationError"
                        /\ result'.msg = v.msg
                        /\ result'.zip_file_path = <<>>
                        /\ zips' = zips
                   ELSE result'.status = v.status]_vars
    /\ [](result.op = "make_asset_zip" =>
             result.status # "Cons3rtAssetStructureError")

\* make_asset_zip failed on an illegal item the validation met in the loop
C15_Witness ==
    /\ apc = "zipped"
    /\ result.status = "AssetZipCreationError"
    /\ result.msg = "illegal item"
    /\ result.examined >= 1
    /\ zips = {}

\* a step in which a poll is issued
PollIssued == nPolls' = nPolls + 1

\* C16: a poll is issued only when the latest allocation request was
\* affirmed, and is at most the maxQueries-th since that request; once a poll
\* has returned a realm id, no poll and no allocation request is issued.
C16_PollsOnlyAfterAffirmedRequest ==
    /\ [][PollIssued =>
             /\ nRequests >= 1
             /\ allocated \in Affirming
             /\ nRequests' = nRequests
             /\ pollsSince' = pollsSince + 1
             /\ pollsSince' <= MaxQueriesOf]_vars
    /\ [][found.type = "int" =>
             /\ nPolls' = nPolls
             /\ nRequests' = nRequests
             /\ found' = found]_vars
    /\ [](found.type = "int" => pc \notin {"alloc_loop", "alloc_poll"})

\* the second request was affirmed and its second poll returned a realm id
C16_Witness ==
    /\ found.type = "int"
    /\ nRequests = 2
    /\ nPolls = 4
    /\ pollsSince = 2
    /\ pc = "alloc_grant"

\* what C17 says of one step of the allocator
RetryCountStep ==
    \* the count changes only by one, after maxQueries polls without an id
    /\ retry_count' # retry_count =>
          /\ retry_count' = retry_count + 1
          /\ pc = "alloc_poll"
          /\ allocated \in Affirming
          /\ pollsSince = MaxQueriesOf
          /\ vr_id.type = "NoneType"
    \* maxQueries polls without an id always change it
    /\ (pc = "alloc_poll" /\ pc' = "alloc_loop") => retry_count' = retry_count + 1
    \* after the increment: a new request, or the exhaustion failure
    /\ (pc = "alloc_loop" /\ retry_count >= 1) =>
          IF retry_count < MaxRetriesOf
          THEN nRequests' = nRequests + 1
          ELSE err' = ExhaustedError /\ nRequests' = nRequests

\* C17: retryCount goes up by exactly one each time maxQueries polls after an
\* affirmed request all returned no id, and at no other time; after the
\* increment a new allocation request is issued if retryCount < maxRetries,
\* otherwise the operation ends in the exhaustion failure.
C17_RetryCountIncrement == [][RetryCountStep]_vars

\* the run is inside allocate_virtualization_realm, or has left it
InAllocationAttempt ==
    /\ NormMode(mode) = "allocate"
    /\ pc \notin {"start", "config"}

\* C18: in every state of an allocation attempt, 0 <= retryCount <=
\* maxRetries, the polls issued since the latest allocation request are
\* between 0 and maxQueries, and the realm id is absent until a poll has
\* returned one, after which it is the id that poll returned.
C18_AttemptInvariant ==
    InAllocationAttempt =>
        /\ 0 <= retry_count
        /\ retry_count <= MaxRetriesOf
        /\ 0 <= pollsSince
        /\ pollsSince <= MaxQueriesOf
        /\ found.type = "NoneType" => vr_id.type = "NoneType"
        /\ found.type = "int" => vr_id = found

\* the file doc of the root is what the manifest declares as its
\* documentation or license file
DocFileDeclared ==
    /\ File(<<"doc">>) \in assetDir
    /\ \/ DeclaredValue("documentationFile").val = <<"doc">>
       \/ DeclaredValue("licenseFile").val = <<"doc">>

\* C19 as claimed (for directories with no VERSION directory): a validation
\* of a directory with a root item named doc raises the structural error.
C19_DocAlwaysRejected ==
    (/\ apc = "validated"
     /\ "doc" \in RootItems(assetDir)
     /\ Dir(<<"VERSION">>) \notin assetDir)
        => result.status = "Cons3rtAssetStructureError"

\* C19, amended: a validation of a directory with a root item named doc
\* fails, with the structural error unless the removal of a VERSION
\* directory failed first, except when doc is a file the manifest declares
\* as its documentation or license file: a declared doc file is accepted,
\* and the validation of an otherwise valid directory returns the name.
C19_UndeclaredDocRejected ==
    (apc = "validated" /\ "doc" \in RootItems(assetDir)) =>
        /\ ~DocFileDeclared =>
              \/ result.status = "Cons3rtAssetStructureError"
              \/ result.status = "OSError" /\ Dir(<<"VERSION">>) \in assetDir
        /\ (DocFileDeclared /\ ValidAssetDir /\ Dir(<<"VERSION">>) \notin assetDir)
              => result.status = "ok"

\* a file named doc, declared as the documentation file, passed validation
C19_Witness ==
    /\ apc = "validated"
    /\ DocFileDeclared
    /\ result.status = "ok"
    /\ result.examined >= 2

\* the root items the manifest declares as documentation or license file
DeclaredRootItems ==
    {item \in RootItems(assetDir) :
        \/ <<item>> = DeclaredValue("documentationFile").val
        \/ <<item>> = DeclaredValue("licenseFile").val}

\* names that a rule on the name rejects or deletes
NamesWithRule ==
    {"VERSION", "doc"} \cup potential_doc_files \cup potential_license_files

\* C20: the declared documentation and license files are accepted whatever
\* their names: the validation of a directory whose manifest passes and
\* whose other root items are allowed returns the name and leaves the
\* declared files in place, also when a declared file is named VERSION, doc
\* or like a documentation or license file.
C20_DeclaredPathsFirst ==
    [][(/\ apc = "idle"
        /\ result'.op = "validate_asset_structure"
        /\ ValidAssetDir
        /\ Dir(<<"VERSION">>) \notin assetDir) =>
           /\ result'.status = "ok"
           /\ \A item \in DeclaredRootItems : File(<<item>>) \in assetDir']_vars

\* validation passed with a declared license file named like one, and with
\* a declared documentation file whose name alone is rejected or deleted
C20_Witness ==
    /\ apc = "validated"
    /\ result.status = "ok"
    /\ \E item \in DeclaredRootItems \cap NamesWithRule :
          /\ <<item>> = DeclaredValue("licenseFile").val
          /\ File(<<item>>) \in assetDir
    /\ \E item \in DeclaredRootItems \cap NamesWithRule :
          /\ <<item>> = DeclaredValue("documentationFile").val
          /\ File(<<item>>) \in assetDir

\* the manifest passes the checks made before the root items are looked at
ManifestPasses ==
    /\ ManifestFile \in assetDir
    /\ Truthy(DeclaredValue("name"))
    /\ Truthy(DeclaredValue("assetType"))
    /\ DeclaredFilePresent("documentationFile", <<>>)
    /\ DeclaredFilePresent("licenseFile", <<>>)
    /\ LowerStr(DeclaredValue("assetType").val) = <<"software">> =>
           /\ Truthy(DeclaredValue("installScript"))
           /\ DeclaredFilePresent("installScript", <<"scripts">>)

\* the root items named like a documentation file, or like a license file,
\* that are not the file the manifest declares under the key
KnownNamed(names, key) ==
    {item \in RootItems(assetDir) \cap names : <<item>> # DeclaredValue(key).val}

\* those of them that the manifest declares under neither key
Undeclared(items) ==
    {item \in items : /\ <<item>> # DeclaredValue("documentationFile").val
                      /\ <<item>> # DeclaredValue("licenseFile").val}

\* the root items the structure does not allow
Offenders == {item \in RootItems(assetDir) : ~AllowedRootItem(item)}

\* the item is the one root item validation can stop at
OnlyOffender(item) ==
    /\ ManifestPasses
    /\ Dir(<<"VERSION">>) \notin assetDir
    /\ Offenders = {item}

\* C21 as claimed: a validation of a directory with a root item that is named
\* like a documentation file and is not the declared documentation file, or
\* is named like a license file and is not the declared license file, never
\* returns a name.
C21_KnownNameNeverAccepted ==
    (/\ apc = "validated"
     /\ KnownNamed(potential_doc_files, "documentationFile")
            \cup KnownNamed(potential_license_files, "licenseFile") # {})
        => result.status # "ok"

\* C21, amended: a root item named like a documentation or license file that
\* the manifest declares neither as documentationFile nor as licenseFile is
\* never accepted; when it is the only item validation can stop at, the
\* structural error says "not specified" if the manifest declares no file
\* under the key of its kind and "extra" if it declares one.  An item named
\* like one kind and declared under the key of the other kind is accepted.
C21_UndeclaredKnownNameRejected ==
    apc = "validated" =>
        /\ Undeclared(KnownNamed(potential_doc_files, "documentationFile")
                         \cup KnownNamed(potential_license_files, "licenseFile")) # {}
              => (result.status # "ok" /\ result.name = <<>>)
        /\ \A item \in Undeclared(KnownNamed(potential_doc_files, "documentationFile")) :
              OnlyOffender(item) =>
                 /\ result.status = "Cons3rtAssetStructureError"
                 /\ result.msg = IF Truthy(DeclaredValue("documentationFile"))
                                 THEN "extra documentation file"
                                 ELSE "documentation file not specified"
        /\ \A item \in Undeclared(KnownNamed(potential_license_files, "licenseFile")) :
              OnlyOffender(item) =>
                 /\ result.status = "Cons3rtAssetStructureError"
                 /\ result.msg = IF Truthy(DeclaredValue("licenseFile"))
                                 THEN "extra license file"
                                 ELSE "license file not specified"
        /\ \A item \in KnownNamed(potential_license_files, "licenseFile") :
              (/\ <<item>> = DeclaredValue("documentationFile").val
               /\ ValidAssetDir /\ Dir(<<"VERSION">>) \notin assetDir)
                  => result.status = "ok"

\* README was found in a directory whose manifest declares another file,
\* which is there, as its documentation file
C21_Witness ==
    /\ apc = "validated"
    /\ Truthy(DeclaredValue("documentationFile"))
    /\ DeclaredFilePresent("documentationFile", <<>>)
    /\ OnlyOffender("README")
    /\ result.status = "Cons3rtAssetStructureError"
    /\ result.msg = "extra documentation file"

\* the message of the first check, in the order of the checks, that the
\* manifest fails; "none" when it passes them all
FirstManifestViolation ==
    IF ManifestFile \notin assetDir THEN "asset.properties not found"
    ELSE IF ~DeclaredValue("name").set THEN "name not found"
    ELSE IF DeclaredValue("name").val = <<>> THEN "name blank"
    ELSE IF ~DeclaredValue("assetType").set THEN "asset_type not found"
    ELSE IF DeclaredValue("assetType").val = <<>> THEN "asset_type blank"
    ELSE IF ~DeclaredFilePresent("documentationFile", <<>>)
    THEN "documentation file not found"
    ELSE IF ~DeclaredFilePresent("licenseFile", <<>>)
    THEN "license file not found"
    ELSE IF LowerStr(DeclaredValue("assetType").val) # <<"software">> THEN "none"
    ELSE IF ~Truthy(DeclaredValue("installScript")) THEN "installScript missing"
    ELSE IF ~DeclaredFilePresent("installScript", <<"scripts">>)
    THEN "install script not found"
    ELSE "none"

\* the place in the listing of the first root item that is not allowed, 0
\* when all are allowed
FirstOffender(order) ==
    LET places == {i \in DOMAIN order : ~AllowedRootItem(order[i])} IN
    IF places = {} THEN 0
    ELSE CHOOSE i \in places : \A j \in places : i <= j

\* a validation that stopped at the first violation: a manifest check, or
\* the root item at place FirstOffender of the listing
StoppedAtFirstViolation(order) ==
    IF FirstManifestViolation # "none"
    THEN /\ result'.status = "Cons3rtAssetStructureError"
         /\ result'.msg = FirstManifestViolation
         /\ result'.examined = 0
         /\ result'.name = <<>>
         /\ assetDir' = assetDir
    ELSE LET i == FirstOffender(order) IN
         i # 0 =>
              /\ result'.status = "Cons3rtAssetStructureError"
              /\ result'.examined = i
              /\ result'.name = <<>>
              /\ \A j \in (i + 1)..Len(order) :
                    \A e \in assetDir : e.path[1] = order[j] => e \in assetDir'

\* C22: a validation ends at the first violation in check order: it raises
\* the structural error of the first manifest check that fails and looks at
\* no root item; otherwise it raises the structural error at the first root
\* item of the listing that is not allowed, has looked at no item after it
\* and deleted none, and returns no name.
C22_FailFast ==
    [][(apc = "idle" /\ result'.op = "validate_asset_structure") =>
          \E order \in Orders(RootItems(assetDir)) :
             StoppedAtFirstViolation(order)]_vars

\* the name or the assetType of the manifest is missing or blank
NameOrTypeLacking ==
    \/ ~Truthy(DeclaredValue("name"))
    \/ ~Truthy(DeclaredValue("assetType"))

\* C23: a validation of a manifest whose name or assetType is missing or
\* blank raises the structural error: it returns no name, and it looks at no
\* root item and leaves the directory as it is; make_asset_zip writes no zip
\* file for such a manifest.
C23_NameAndTypeRequired ==
    /\ [][(/\ apc = "idle"
            /\ result'.op = "validate_asset_structure"
            /\ NameOrTypeLacking)
              => /\ result'.status = "Cons3rtAssetStructureError"
                 /\ result'.name = <<>>
                 /\ result'.examined = 0
                 /\ assetDir' = assetDir]_vars
    /\ []((/\ result.op = "make_asset_zip"
            /\ NameOrTypeLacking)
              => (result.status = "AssetZipCreationError" /\ zips = {}))

\* a manifest with a name and an assetType line of no value was rejected
C23_Witness ==
    /\ apc = "validated"
    /\ Truthy(DeclaredValue("name"))
    /\ DeclaredValue("assetType") = PropVal(<<>>)
    /\ result.status = "Cons3rtAssetStructureError"
    /\ result.msg = "asset_type blank"

\* the keys validation reads
RecognizedKeys ==
    {"name", "assetType", "installScript", "documentationFile", "licenseFile"}

\* the recognized key a line sets, "" when it sets none
KeyOf(line) ==
    LET s == Strip(line) IN
    IF Len(s) >= 2 /\ s[2] = "=" /\ s[1] \in RecognizedKeys THEN s[1] ELSE ""

\* the manifest without the lines whose key a later line sets again
RECURSIVE LastOccurrences(_)
LastOccurrences(lines) ==
    IF lines = <<>> THEN <<>>
    ELSE LET rest == Tail(lines)
             k == KeyOf(Head(lines))
         IN IF k # "" /\ \E i \in DOMAIN rest : KeyOf(rest[i]) = k
            THEN LastOccurrences(rest)
            ELSE <<Head(lines)>> \o LastOccurrences(rest)

\* C24: a validation ends as it does for the manifest without the earlier
\* occurrences of repeated keys: same outcome, same message, same name, same
\* items looked at and same directory left; a name returned is taken from
\* the last name line.
C24_LastWriteWins ==
    [][(apc = "idle" /\ result'.op = "validate_asset_structure") =>
          /\ \E v \in validate_asset_structure(assetDir, LastOccurrences(manifest)) :
                /\ v.status = result'.status
                /\ v.msg = result'.msg
                /\ v.name = result'.name
                /\ v.examined = result'.examined
                /\ v.fs = assetDir'
          /\ result'.status = "ok" =>
                /\ result'.name # <<>>
                /\ StartsWith(DeclaredValue("name").val, result'.name)]_vars

\* a manifest that repeats all five keys passed with the second values
C24_Witness ==
    /\ apc = "validated"
    /\ \A k \in RecognizedKeys :
          Cardinality({i \in DOMAIN manifest : KeyOf(manifest[i]) = k}) = 2
    /\ result.status = "ok"
    /\ result.name = <<"Tool">>

\* the manifest declares the assetType software, in whatever case
SoftwareDeclared == LowerStr(DeclaredValue("assetType").val) = <<"software">>

\* the directory is valid but for what is required of installScript
ValidButForInstallScript ==
    /\ ManifestFile \in assetDir
    /\ Truthy(DeclaredValue("name"))
    /\ Truthy(DeclaredValue("assetType"))
    /\ DeclaredFilePresent("documentationFile", <<>>)
    /\ DeclaredFilePresent("licenseFile", <<>>)
    /\ \A item \in RootItems(assetDir) : AllowedRootItem(item)
    /\ Dir(<<"VERSION">>) \notin assetDir

\* C25: a validation of a manifest whose assetType is software, in whatever
\* case, passes only if installScript is declared and scripts/<installScript>
\* is a file of the asset directory; with any other assetType a directory
\* that is valid otherwise passes whether or not installScript is declared
\* and whether or not the file is there.
C25_SoftwareNeedsInstallScript ==
    apc = "validated" =>
        /\ (result.status = "ok" /\ SoftwareDeclared) =>
               /\ Truthy(DeclaredValue("installScript"))
               /\ File(<<"scripts">> \o Segments(DeclaredValue("installScript").val))
                      \in assetDir
        /\ (ValidButForInstallScript /\ ~SoftwareDeclared) => result.status = "ok"

\* a file the claim lets the packager leave out: below a directory named in
\* the ignore-directories list, or named with an ignore-file prefix
MayBeLeftOut(segments) ==
    \/ \E i \in 1..(Len(segments) - 1) : segments[i] \in ignore_dirs
    \/ segments[Len(segments)] \in
           {".DS_Store", ".gitignore"} \cup DotUnderscoreNames

\* C26: every file of the asset directory is in the zip file written, but
\* for the files below a .git, .svn or .cons3rt directory and the files
\* whose name starts with .DS_Store, .gitignore or "._".
C26_OnlyIgnoredLeftOut ==
    (result.op = "make_asset_zip" /\ result.status = "ok") =>
        \A z \in zips :
           \A e \in assetDir :
              (~e.dir /\ ~MayBeLeftOut(e.path)) => Joined(e.path) \in z.entries

\* a call of make_asset_zip whose asset_dir_path is a directory
ZipOfDirectory ==
    /\ apc \in {"idle", "zipped"}
    /\ result'.op = "make_asset_zip"
    /\ result'.msg # "asset_dir_path is not a directory"

\* C27: a make_asset_zip whose destination directory does not exist creates
\* it, defaulted or given, and goes on to the validation; the error about
\* the destination is raised only for a destination that exists and is not a
\* directory.
C27_DestinationCreated ==
    [][ZipOfDirectory =>
          /\ destination.state = "absent" =>
                 /\ destination'.state = "dir"
                 /\ result'.msg # "destination_directory is not a directory"
          /\ result'.msg = "destination_directory is not a directory" =>
                 destination.state = "file"]_vars

\* C28: whatever the configured counts are and however they were given, an
\* allocation issues at most maxRetries allocation requests and at most
\* maxRetries * maxQueries polls, and it has ended (in success, in the
\* refusal or in the exhaustion error) once maxRetries requests have each
\* been followed by maxQueries polls with no realm id.
C28_AllocationTerminates ==
    InAllocationAttempt =>
        /\ nRequests <= MaxRetriesOf
        /\ nPolls <= MaxRetriesOf * MaxQueriesOf
        /\ (/\ pc = "alloc_loop"
            /\ retry_count >= MaxRetriesOf) => ~ENABLED AllocRequest

\* C29: a validation that ends in the structural error leaves the asset
\* directory as it found it: no file, the VERSION file of the root included,
\* is deleted in a run that fails.
C29_FailedRunLeavesDirectory ==
    [][(/\ apc = "idle"
        /\ result'.op = "validate_asset_structure"
        /\ result'.status = "Cons3rtAssetStructureError") =>
           assetDir' = assetDir]_vars

\* the active runs found were released, and the wait loop was entered
RunsReleased == "release_deployment_run" \in {purgeCalls[i] : i \in DOMAIN purgeCalls}

\* deployment runs were deleted or the realm was deallocated
PurgedOrDeallocated ==
    \E i \in DOMAIN purgeCalls :
       purgeCalls[i] \in {"delete_deployment_run", "deallocate_virtualization_realm"}

\* C30: in deallocate and unregister, once active runs were found and
\* released, the wait loop is left only when the latest query for active
\* runs reported none, deployment runs are deleted and the realm is
\* deallocated only after such a query, and a query that still reports
\* active runs keeps the loop waiting.
C30_WaitsUntilNoActiveRuns ==
    /\ []((RunsReleased /\ pc = "purge_delete") => drs = 0)
    /\ []((RunsReleased /\ PurgedOrDeallocated) => drs = 0)
    /\ [][(pc = "purge_wait" /\ pc' # "op_raised" /\ drs' > 0)
              => pc' = "purge_wait"]_vars

====
